---- MODULE Spec2Model ----
(***************************************************************************)
(* A model of the recipe API as the code at hand runs it: the user store   *)
(* (core/models.py), and the calls and requests of the recipe app that the *)
(* tests make, which core/models.py (no Tag, Ingredient, Recipe),          *)
(* recipe/serializers.py and recipe/urls.py cannot serve.                  *)
(*                                                                         *)
(* Strings whose content matters (emails, passwords, file names) are       *)
(* sequences of one-character strings.                                     *)
(***************************************************************************)
EXTENDS Integers, Sequences, FiniteSets, TLC

VARIABLES users, origin, resp,
          tags, ingredients, recipes, listing,
          imgIn, imgOut, inflight

vars == <<users, origin, resp, tags, ingredients, recipes, listing,
          imgIn, imgOut, inflight>>

userVars == <<users, origin>>
recipeVars == <<tags, ingredients, recipes, listing>>
imageVars == <<imgIn, imgOut>>

(***************************************************************************)
(* Bounds of the model.                                                    *)
(***************************************************************************)
MaxUsers == 2
MaxRows == 2
MaxRecipes == 2
MaxFileLen == 5

(***************************************************************************)
(* Characters and strings.                                                 *)
(***************************************************************************)
RECURSIVE SeqsUpTo(_, _)
SeqsUpTo(S, n) ==
    IF n = 0 THEN {<<>>}
    ELSE LET shorter == SeqsUpTo(S, n - 1)
         IN  shorter \cup {Append(s, c) : s \in {t \in shorter : Len(t) = n - 1}, c \in S}

(***************************************************************************)
(* Inputs of the user operations.                                          *)
(***************************************************************************)
\* well-formed addresses local@domain: one all in lower case, one in upper case
ValidEmails == {<<"t", "@", "e">>, <<"T", "@", "E">>}

\* what a caller may pass as email: also the empty string
Emails == ValidEmails \cup {<<>>}

ShortPassword == <<"p", "w">>
LongPassword == <<"p", "a", "s", "s", "1">>
\* password=None, the default of create_user
NonePassword == <<"None">>

StrPasswords == {ShortPassword, LongPassword}
Passwords == StrPasswords \cup {NonePassword}

(***************************************************************************)
(* Password hashing, as django's set_password / check_password behave:     *)
(* a one-way tagged value; None gives an unusable password.                *)
(***************************************************************************)
make_password(password) ==
    IF password = NonePassword
    THEN [algo |-> "!", of |-> <<>>]
    ELSE [algo |-> "pbkdf2_sha256", of |-> password]

check_password(raw, stored) ==
    /\ raw # NonePassword
    /\ stored.algo # "!"
    /\ stored = make_password(raw)

(***************************************************************************)
(* core/models.py: User and UserManager.                                   *)
(***************************************************************************)
\* **extra_Field: the keyword arguments a caller may add to create_user
ExtraKeys == {{}, {"name", "is_staff"}, {"is_staff", "is_superuser"}, {"is_active"}}

Extras ==
    {[f \in D |-> IF f = "name" THEN "Test Name" ELSE IF f = "is_active" THEN FALSE ELSE TRUE] :
        D \in ExtraKeys}

\* the field defaults of the User model
UserDefaults ==
    [name |-> "", is_active |-> TRUE, is_staff |-> FALSE, is_superuser |-> FALSE]

\* User(email=email, **extra_Field): given fields, defaults for the rest
User(email, extra) ==
    [f \in {"email", "password"} \cup DOMAIN UserDefaults |->
        IF f = "email" THEN email
        ELSE IF f = "password" THEN make_password(NonePassword)
        ELSE IF f \in DOMAIN extra THEN extra[f]
        ELSE UserDefaults[f]]

\* user.set_password(password)
set_password(user, password) ==
    [user EXCEPT !.password = make_password(password)]

\* an email column without unique=True: no address is ever refused
MutantNotUnique(store, email) == FALSE

\* email = models.EmailField(unique=True): a row with this email exists
EmailTaken(store, email) ==
    \E i \in 1..Len(store) : store[i].email = email

\* UserManager.create_user: the user it builds and saves
create_user(email, password, extra) ==
    set_password(User(email, extra), password)

Names == {"Test Name"}

\* which call made a user, and with which extra keyword arguments
Origin(via, extra) == [via |-> via, extra |-> extra]

NoResp == [op |-> "none", status |-> "none", email |-> <<>>,
           password |-> NonePassword, uid |-> 0]

UserResp(op, status, email, password, uid) ==
    [op |-> op, status |-> status, email |-> email, password |-> password, uid |-> uid]

(***************************************************************************)
(* get_user_model().objects.create_user(email, password, **extra)          *)
(* The row is built from the arguments as given and saved; the unique      *)
(* index on email makes save() raise IntegrityError for a taken address.   *)
(***************************************************************************)
CreateUser(email, password, extra) ==
    /\ IF EmailTaken(users, email)
       THEN /\ resp' = UserResp("create_user", "IntegrityError", email, password, 0)
            /\ UNCHANGED userVars
       ELSE /\ Len(users) < MaxUsers
            /\ users' = Append(users, create_user(email, password, extra))
            /\ origin' = Append(origin, Origin("create_user", extra))
            /\ resp' = UserResp("create_user", "ok", email, password, Len(users) + 1)
    /\ UNCHANGED <<recipeVars, imageVars, inflight>>

(***************************************************************************)
(* get_user_model().objects.create_superuser(email, password)              *)
(* UserManager defines create_user only, and its base class has no         *)
(* create_superuser: the attribute lookup fails, AttributeError is raised   *)
(* and nothing is stored.                                                  *)
(***************************************************************************)
CreateSuperuser(email, password) ==
    /\ resp' = UserResp("create_superuser", "AttributeError", email, password, 0)
    /\ UNCHANGED userVars
    /\ UNCHANGED <<recipeVars, imageVars, inflight>>

(***************************************************************************)
(* POST /user/create: the payload is validated (email present and not      *)
(* registered, password of at least MinPasswordLen characters), then the   *)
(* user is made with create_user.                                          *)
(***************************************************************************)
MinPasswordLen == 5

UserPayloadValid(store, email, password) ==
    /\ email \in ValidEmails
    /\ ~EmailTaken(store, email)
    /\ password \in StrPasswords
    /\ Len(password) >= MinPasswordLen

PostUserCreate(email, password, name) ==
    /\ IF ~UserPayloadValid(users, email, password)
       THEN /\ resp' = UserResp("POST /user/create", "400", email, password, 0)
            /\ UNCHANGED userVars
       ELSE /\ Len(users) < MaxUsers
            /\ users' = Append(users, create_user(email, password, [f \in {"name"} |-> name]))
            /\ origin' = Append(origin, Origin("POST /user/create", [f \in {"name"} |-> name]))
            /\ resp' = UserResp("POST /user/create", "201", email, password, Len(users) + 1)
    /\ UNCHANGED <<recipeVars, imageVars, inflight>>

NextUser ==
    \/ \E e \in Emails, p \in Passwords, x \in Extras : CreateUser(e, p, x)
    \/ \E e \in Emails, p \in Passwords : CreateSuperuser(e, p)
    \/ \E e \in Emails, p \in Passwords, n \in Names : PostUserCreate(e, p, n)

(***************************************************************************)
(* The recipe domain. tags, ingredients and recipes are the rows of the     *)
(* three tables and listing is the body of the last list answer. The code  *)
(* has no model class for any of the tables (core/models.py defines User   *)
(* and UserManager only), so no call can add a row: the tables stay as     *)
(* they are at the start.                                                  *)
(***************************************************************************)
Owners == {"u1", "u2"}
Kinds == {"tag", "ingredient"}
RowNames == {"Lemon", "Oil"}
Titles == {"Salad", "Beef"}

\* the outcome of a call or request: the operation, how it ended, and its
\* arguments (caller, kind of entity, id, and name, flag or body)
RecipeResp(op, status, user, kind, id, arg) ==
    [op |-> op, status |-> status, user |-> user, kind |-> kind, id |-> id, arg |-> arg]

(***************************************************************************)
(* The ORM calls of the tests. models.Tag, models.Ingredient and           *)
(* models.Recipe do not exist: the attribute lookup raises AttributeError  *)
(* (and `from core.models import Tag, Recipe` raises ImportError) before   *)
(* any row is made. With no recipe and no tag, recipe.tags.add(tag) is     *)
(* never reached and is no step of the model.                              *)
(***************************************************************************)
\* Tag.objects.create(user=user, name=name) / Ingredient.objects.create(...)
RowCreate(k, u, name) ==
    /\ resp' = RecipeResp("create", "AttributeError", u, k, 0, name)
    /\ UNCHANGED <<recipeVars, userVars, imageVars, inflight>>

\* create_recipe(user, **params): Recipe.objects.create(user=user, **defaults)
RecipeCreate(u, title) ==
    /\ resp' = RecipeResp("create", "AttributeError", u, "recipe", 0, title)
    /\ UNCHANGED <<recipeVars, userVars, imageVars, inflight>>

(***************************************************************************)
(* The requests under /recipe/. The URL configuration (recipe/urls.py)     *)
(* imports recipe.views, which is not there, and recipe/serializers.py     *)
(* imports Recipe from core.models, which does not define it: loading      *)
(* either raises ImportError, so no request is served and nothing is       *)
(* stored. The router, besides, registers 'recipes' only: there is no      *)
(* route for tags or ingredients.                                          *)
(***************************************************************************)
\* GET /recipe/tags/, GET /recipe/ingredients/ (?assigned_only=0/1)
ListRows(k, u, assigned_only) ==
    /\ resp' = RecipeResp("list", "ImportError", u, k, 0, assigned_only)
    /\ UNCHANGED <<recipeVars, userVars, imageVars, inflight>>

\* GET /recipe/recipes/
ListRecipes(u) ==
    /\ resp' = RecipeResp("list", "ImportError", u, "recipe", 0, FALSE)
    /\ UNCHANGED <<recipeVars, userVars, imageVars, inflight>>

\* PATCH /recipe/tags/{id}/, PATCH /recipe/ingredients/{id}/
UpdateRow(k, u, id, name) ==
    /\ resp' = RecipeResp("update", "ImportError", u, k, id, name)
    /\ UNCHANGED <<recipeVars, userVars, imageVars, inflight>>

\* DELETE /recipe/tags/{id}/, DELETE /recipe/ingredients/{id}/
DeleteRow(k, u, id) ==
    /\ resp' = RecipeResp("delete", "ImportError", u, k, id, "")
    /\ UNCHANGED <<recipeVars, userVars, imageVars, inflight>>

\* the name lists a request may give for tags or ingredients
NameLists == {{}, {"Lemon"}, {"Lemon", "Oil"}}

\* request bodies: title, and tags / ingredients given by name or left out
Payloads ==
    {[f \in fs |-> IF f = "title" THEN t ELSE IF f = "tags" THEN tn ELSE im] :
        fs \in SUBSET {"title", "tags", "ingredients"},
        t \in Titles, tn \in NameLists, im \in NameLists}

\* a POST carries the required title
CreatePayloads == {p \in Payloads : "title" \in DOMAIN p}

\* POST /recipe/recipes/
CreateRecipe(u, payload) ==
    /\ resp' = RecipeResp("createRecipe", "ImportError", u, "recipe", 0, payload)
    /\ UNCHANGED <<recipeVars, userVars, imageVars, inflight>>

\* PATCH /recipe/recipes/{id}/
UpdateRecipe(u, id, payload) ==
    /\ resp' = RecipeResp("updateRecipe", "ImportError", u, "recipe", id, payload)
    /\ UNCHANGED <<recipeVars, userVars, imageVars, inflight>>

\* DELETE /recipe/recipes/{id}/
DeleteRecipe(u, id) ==
    /\ resp' = RecipeResp("deleteRecipe", "ImportError", u, "recipe", id, "")
    /\ UNCHANGED <<recipeVars, userVars, imageVars, inflight>>

\* the ORM calls of the tests
NextOrm ==
    \/ \E k \in Kinds, u \in Owners, n \in RowNames : RowCreate(k, u, n)
    \/ \E u \in Owners, t \in Titles : RecipeCreate(u, t)

\* the calls and requests of the recipe app
NextRecipe ==
    \/ NextOrm
    \/ \E k \in Kinds, u \in Owners, a \in BOOLEAN : ListRows(k, u, a)
    \/ \E k \in Kinds, u \in Owners, id \in 1..MaxRows, n \in RowNames : UpdateRow(k, u, id, n)
    \/ \E k \in Kinds, u \in Owners, id \in 1..MaxRows : DeleteRow(k, u, id)
    \/ \E u \in Owners : ListRecipes(u)
    \/ \E u \in Owners, p \in CreatePayloads : CreateRecipe(u, p)
    \/ \E u \in Owners, id \in 1..MaxRecipes, p \in Payloads : UpdateRecipe(u, id, p)
    \/ \E u \in Owners, id \in 1..MaxRecipes : DeleteRecipe(u, id)

(***************************************************************************)
(* Concurrent POST /recipe/recipes/ requests. Each request fails as a      *)
(* whole when the recipe app is loaded, so it is one step; the steps of    *)
(* the requests come in any order.                                         *)
(***************************************************************************)
Requests == {"q1", "q2"}

Idle == [pc |-> "idle"]

\* request q of user u is handled: ImportError, no row of any table is made
ConcurrentCreateRecipe(q, u, payload) ==
    /\ inflight[q].pc = "idle"
    /\ inflight' = [inflight EXCEPT ![q] =
                      [pc |-> "done", status |-> "ImportError",
                       user |-> u, payload |-> payload]]
    /\ resp' = RecipeResp("createRecipe", "ImportError", u, "recipe", 0, payload)
    /\ UNCHANGED <<recipeVars, userVars, imageVars>>

NextConcurrent ==
    \E q \in Requests, u \in Owners, p \in CreatePayloads : ConcurrentCreateRecipe(q, u, p)

(***************************************************************************)
(* models.recipe_image_file_path(instance, filename), as the test of the   *)
(* image path calls it with uuid4 patched. core/models.py defines no       *)
(* recipe_image_file_path and imports no uuid: the attribute lookup fails  *)
(* with AttributeError for every file name, and no path is returned.       *)
(***************************************************************************)
FileChars == {"x", "j", "."}
Filenames == SeqsUpTo(FileChars, MaxFileLen) \ {<<>>}
Uuids == {<<"u", "1">>, <<"u", "2">>}

UploadDir == <<"uploads", "/", "recipe", "/">>

\* what the call gives in place of a path
AttributeError == <<"AttributeError">>

DeriveImagePath(f, id) ==
    /\ imgIn' = [filename |-> f, uuid |-> id]
    /\ imgOut' = AttributeError
    /\ resp' = NoResp
    /\ UNCHANGED <<userVars, recipeVars, inflight>>

NextImage == \E f \in Filenames, id \in Uuids : DeriveImagePath(f, id)

(***************************************************************************)
(* The initial state: empty tables, nothing requested yet.                 *)
(***************************************************************************)
Init ==
    /\ users = <<>>
    /\ origin = <<>>
    /\ resp = NoResp
    /\ tags = {}
    /\ ingredients = {}
    /\ recipes = {}
    /\ listing = <<>>
    /\ imgIn = [filename |-> <<>>, uuid |-> <<>>]
    /\ imgOut = <<>>
    /\ inflight = [q \in Requests |-> Idle]

SpecUser == Init /\ [][NextUser]_vars
SpecRecipe == Init /\ [][NextRecipe]_vars
SpecImage == Init /\ [][NextImage]_vars
SpecConcurrent == Init /\ [][NextConcurrent]_vars

Next == NextUser \/ NextRecipe \/ NextImage \/ NextConcurrent
Spec == Init /\ [][Next]_vars

(***************************************************************************)
(* Properties of the tag, ingredient and recipe listings.                  *)
(***************************************************************************)
\* the rows of a kind
Rows(k) == IF k = "tag" THEN tags ELSE ingredients

\* the ids of kind k linked to recipe r
Links(r, k) == IF k = "tag" THEN r.tags ELSE r.ingredients

Entities(k) == IF k = "recipe" THEN recipes ELSE Rows(k)

InListing(e) == \E i \in 1..Len(listing) : listing[i] = e

Occurrences(s, x) == Cardinality({i \in 1..Len(s) : s[i] = x})

\* C1: a list request of user u is answered 200 with a listing that holds only
\* entities owned by u, and an unfiltered listing holds every entity that u owns.
C1_ListingLimitedToOwner ==
    resp.op = "list" =>
        /\ resp.status = "200"
        /\ \A i \in 1..Len(listing) :
              listing[i] \in Entities(resp.kind) /\ listing[i].user = resp.user
        /\ resp.arg = FALSE =>
              \A e \in Entities(resp.kind) : e.user = resp.user => InListing(e)

\* C2: with assigned_only the list request of u is answered 200 with a listing
\* that holds each row that u owns and that is linked to at least one recipe of
\* u exactly once, and no other row.
C2_AssignedOnlyExactlyOnce ==
    (resp.op = "list" /\ resp.kind \in Kinds /\ resp.arg = TRUE) =>
        /\ resp.status = "200"
        /\ \A i \in 1..Len(listing) : listing[i] \in Rows(resp.kind)
        /\ \A t \in Rows(resp.kind) :
              Occurrences(listing, t) =
                 IF /\ t.user = resp.user
                    /\ \E r \in recipes : r.user = resp.user /\ t.id \in Links(r, resp.kind)
                 THEN 1 ELSE 0

RowsAfter(k) == IF k = "tag" THEN tags' ELSE ingredients'

\* what an update or delete of row id by user u has to do, given whether u owns it
C3_Step ==
    resp'.op \in {"update", "delete"} =>
        LET k == resp'.kind
            u == resp'.user
            id == resp'.id
            owned == \E t \in Rows(k) : t.id = id /\ t.user = u
        IN  IF ~owned
            THEN /\ resp'.status = "404"
                 /\ UNCHANGED <<tags, ingredients, recipes>>
            ELSE IF resp'.op = "update"
            THEN /\ resp'.status = "200"
                 /\ RowsAfter(k) = {IF t.id = id THEN [t EXCEPT !.name = resp'.arg] ELSE t :
                                  t \in Rows(k)}
                 /\ \A o \in Kinds \ {k} : RowsAfter(o) = Rows(o)
            ELSE /\ resp'.status = "204"
                 /\ RowsAfter(k) = {t \in Rows(k) : t.id # id}
                 /\ \A o \in Kinds \ {k} : RowsAfter(o) = Rows(o)

\* C3: update and delete of a tag or ingredient act exactly on a row the caller
\* owns (200 and the new name stored; 204 and the row removed) and otherwise
\* answer 404 and leave every table as it was.
C3_UpdateDeleteOwnRowsOnly == [][C3_Step]_vars

(***************************************************************************)
(* Properties of the user store.                                           *)
(***************************************************************************)
\* str.lower() on one character of the alphabet in use
LowerChar(c) ==
    IF c = "T" THEN "t" ELSE IF c = "E" THEN "e" ELSE c

Lower(s) == [i \in 1..Len(s) |-> LowerChar(s[i])]

\* the positions of character c in s
Positions(s, c) == {i \in 1..Len(s) : s[i] = c}

LastIndex(s, c) ==
    CHOOSE i \in Positions(s, c) : \A j \in Positions(s, c) : j <= i

\* the address with the part after the last '@' in lower case
normalize_email(email) ==
    IF Positions(email, "@") = {} THEN email
    ELSE LET at == LastIndex(email, "@")
         IN  SubSeq(email, 1, at) \o Lower(SubSeq(email, at + 1, Len(email)))

\* C4: create_user with a valid email and password stores a user whose password
\* verifies and whose email is the input with only the domain in lower case.
C4_CreateUserNormalizesEmail ==
    (/\ resp.op = "create_user" /\ resp.status = "ok"
     /\ resp.email \in ValidEmails /\ resp.password \in StrPasswords) =>
        /\ check_password(resp.password, users[resp.uid].password)
        /\ users[resp.uid].email = normalize_email(resp.email)

\* C5: create_user with an empty email raises ValueError, whatever the password,
\* and no user with an empty email is ever stored.
C5_EmptyEmailRejected ==
    /\ (resp.op = "create_user" /\ resp.email = <<>>) => resp.status = "ValueError"
    /\ \A i \in 1..Len(users) : origin[i].via = "create_user" => users[i].email # <<>>

\* a registration request for a taken email or with a short password is
\* answered 400 and stores nothing
C6_Step ==
    (/\ resp'.op = "POST /user/create"
     /\ \/ \E i \in 1..Len(users) : users[i].email = resp'.email
        \/ Len(resp'.password) < MinPasswordLen) =>
        /\ resp'.status = "400"
        /\ users' = users

C6_NoSharedEmail ==
    \A i, j \in 1..Len(users) : users[i].email = users[j].email => i = j

\* C6: POST /user/create answers 400 for a registered email or a password of
\* fewer than 5 characters and leaves the users as they were; no two users ever
\* share an email.
C6_RegistrationRejectsDuplicates == []C6_NoSharedEmail /\ [][C6_Step]_vars

\* a registration with a good password is refused because the email is taken
C6_Witness ==
    /\ resp.op = "POST /user/create" /\ resp.status = "400"
    /\ Len(resp.password) >= MinPasswordLen
    /\ \E i \in 1..Len(users) : users[i].email = resp.email
    /\ Len(users) = 2

\* C9: create_superuser with an email that is free stores a user with both
\* flags set, and a stored user is staff, and is superuser, exactly when
\* create_superuser made it.
C9_FlagsOnlyBySuperuser ==
    /\ Len(origin) = Len(users)
    /\ (resp.op = "create_superuser" /\ resp.email \in ValidEmails) =>
          \/ resp.status = "IntegrityError"
          \/ /\ resp.status = "ok"
             /\ users[resp.uid].is_staff /\ users[resp.uid].is_superuser
    /\ \A i \in 1..Len(users) :
          /\ users[i].is_staff <=> origin[i].via = "create_superuser"
          /\ users[i].is_superuser <=> origin[i].via = "create_superuser"

(***************************************************************************)
(* Properties of the recipe endpoints.                                     *)
(***************************************************************************)
PayloadKey(k) == IF k = "tag" THEN "tags" ELSE "ingredients"

\* the rows of kind k linked to recipe r
LinkedRows(r, k) == {t \in Rows(k) : t.id \in Links(r, k)}

\* C7: createRecipe with tags or ingredients given by name is answered 201 and
\* the new recipe is linked to rows of its owner carrying exactly those names,
\* one row for each name.
C7_CreateRecipeResolvesNames ==
    resp.op = "createRecipe" =>
        /\ resp.status = "201"
        /\ \E r \in recipes :
              /\ r.id = resp.id /\ r.user = resp.user
              /\ \A k \in Kinds :
                    PayloadKey(k) \in DOMAIN resp.arg =>
                        /\ {t.name : t \in LinkedRows(r, k)} = resp.arg[PayloadKey(k)]
                        /\ \A t \in LinkedRows(r, k) : t.user = r.user
                        /\ \A n \in resp.arg[PayloadKey(k)] :
                              Cardinality({t \in Rows(k) : t.user = r.user /\ t.name = n}) = 1

C8_Step ==
    resp'.op = "updateRecipe" =>
        IF \E r \in recipes : r.id = resp'.id /\ r.user = resp'.user
        THEN /\ resp'.status = "200"
             /\ LET before == CHOOSE r \in recipes : r.id = resp'.id
                    after == CHOOSE r \in recipes' : r.id = resp'.id
                IN  \A k \in Kinds :
                       IF PayloadKey(k) \in DOMAIN resp'.arg
                       THEN /\ \A id \in Links(after, k) :
                                  \E t \in RowsAfter(k) : t.id = id /\ t.user = after.user
                            /\ {t.name : t \in {x \in RowsAfter(k) : x.id \in Links(after, k)}}
                                  = resp'.arg[PayloadKey(k)]
                       ELSE Links(after, k) = Links(before, k)
        ELSE /\ resp'.status = "404"
             /\ UNCHANGED <<tags, ingredients, recipes>>

\* C8: updateRecipe on the caller's recipe is answered 200; it replaces the
\* recipe's tags (ingredients) by the rows of the given names when the request
\* gives them, even as an empty list, and leaves them as they were when it does
\* not. On any other id it answers 404 and changes nothing.
C8_UpdateRecipeReplacesLinks == [][C8_Step]_vars

(***************************************************************************)
(* Properties of the image path.                                           *)
(***************************************************************************)
HasDot(f) == \E i \in 1..Len(f) : f[i] = "."

\* uploads/recipe/ + id + '.'
PathStem == UploadDir \o imgIn.uuid \o <<".">>

\* C10: for every file name the call returns a path uploads/recipe/ + id + '.'
\* + ext; for a name with a '.', ext is what follows the last '.' of the name,
\* and nothing else of the name.
C10_ImagePathFromUuidAndExtension ==
    imgIn.filename # <<>> =>
        /\ Len(imgOut) >= Len(PathStem)
        /\ SubSeq(imgOut, 1, Len(PathStem)) = PathStem
        /\ HasDot(imgIn.filename) =>
              \E i \in 1..Len(imgIn.filename) :
                  /\ imgIn.filename[i] = "."
                  /\ \A j \in (i + 1)..Len(imgIn.filename) : imgIn.filename[j] # "."
                  /\ imgOut = PathStem \o SubSeq(imgIn.filename, i + 1, Len(imgIn.filename))

(***************************************************************************)
(* Properties of concurrent recipe creation.                               *)
(***************************************************************************)
\* two handled requests of one user that both named n as a row of kind k
BothNamed(q1, q2, k, n) ==
    /\ q1 # q2
    /\ inflight[q1].pc = "done" /\ inflight[q2].pc = "done"
    /\ inflight[q1].user = inflight[q2].user
    /\ \A q \in {q1, q2} :
          /\ PayloadKey(k) \in DOMAIN inflight[q].payload
          /\ n \in inflight[q].payload[PayloadKey(k)]

\* C11: when two concurrent createRecipe requests of the same owner both name a
\* tag (or ingredient) that the owner does not have, each creates a row, so
\* afterwards the owner has two rows of that name.
C11_ConcurrentCreatesDuplicate ==
    \A q1, q2 \in Requests : \A k \in Kinds : \A n \in RowNames :
        BothNamed(q1, q2, k, n) =>
            Cardinality({t \in Rows(k) : t.user = inflight[q1].user /\ t.name = n}) >= 2

====
